---- MODULE Spec2Model ----
(***************************************************************************)
(* Model of merge_maniobras_to_csv.py: discovery of INPUT/Driver*/*.xlsx,  *)
(* label extraction from the file name, per-file projection, aggregation   *)
(* with pandas.concat and emission with DataFrame.to_csv.                  *)
(*                                                                         *)
(* Texts (file names, cell values, the bytes of the CSV) are sequences of  *)
(* one-character strings.  Column names are kept as atomic strings: no     *)
(* operation of the program looks inside a column name.                    *)
(***************************************************************************)
EXTENDS Integers, Sequences, FiniteSets, TLC

VARIABLES
    rootKind,     \* what args.input is on disk: "missing", "file" or "dir"
    fs,           \* entries below the input root: records [path, kind]
    pandasOk,     \* whether "import pandas" succeeds
    pc,           \* position of main(): start, import, loop, done, fatal,
                  \* crashed; idle when main() is not run
    globbed,      \* TRUE once iter_excel_files has started to enumerate
    idx,          \* number of paths the for loop has taken from the generator
    reads,        \* log of pd.read_excel calls: [path, res]
    frames,       \* the list "frames" of main()
    combined,     \* the DataFrame "combined"
    outDir,       \* whether output_csv.parent exists
    outFile,      \* the output file: [exists, data]
    exitStatus,   \* process exit status, -1 while running
    errMsg,       \* which fatal message was raised, "" if none
    pname,        \* argument of a stand-alone parse_maneuver_from_filename call
    plabel        \* its result: [set, val]

vars == <<rootKind, fs, pandasOk, pc, globbed, idx, reads, frames, combined,
          outDir, outFile, exitStatus, errMsg, pname, plabel>>

mainVars == <<rootKind, fs, pandasOk, pc, globbed, idx, reads, frames,
              combined, outDir, outFile, exitStatus, errMsg>>

----------------------------------------------------------------------------
(* Bounds *)

\* largest number of entries below the input root
MaxEntries == 5

\* longest file name enumerated for the stand-alone label extraction
MaxNameLen == 4

----------------------------------------------------------------------------
(* Texts *)

\* code points of the characters used in names; sorted() compares by these
Code ==
    [c \in {"\"", ",", "-", ".", "1", "2", "D", "I", "M", "N", "S", "T", "U",
            "_", "a", "b", "c", "d", "e", "g", "i", "l", "m", "n", "o", "r",
            "s", "t", "u", "v", "x"} |->
        CASE c = "\"" -> 34 [] c = "," -> 44 [] c = "-" -> 45 [] c = "." -> 46
          [] c = "1" -> 49 [] c = "2" -> 50
          [] c = "D" -> 68 [] c = "I" -> 73 [] c = "M" -> 77 [] c = "N" -> 78
          [] c = "S" -> 83 [] c = "T" -> 84 [] c = "U" -> 85
          [] c = "_" -> 95
          [] c = "a" -> 97 [] c = "b" -> 98 [] c = "c" -> 99 [] c = "d" -> 100
          [] c = "e" -> 101 [] c = "g" -> 103 [] c = "i" -> 105
          [] c = "l" -> 108 [] c = "m" -> 109 [] c = "n" -> 110
          [] c = "o" -> 111 [] c = "r" -> 114 [] c = "s" -> 115
          [] c = "t" -> 116 [] c = "u" -> 117 [] c = "v" -> 118
          [] c = "x" -> 120]

\* str.__lt__ on two texts: lexicographic by code point
RECURSIVE StrLess(_, _)
StrLess(a, b) ==
    IF b = <<>> THEN FALSE
    ELSE IF a = <<>> THEN TRUE
    ELSE IF Code[Head(a)] < Code[Head(b)] THEN TRUE
    ELSE IF Code[Head(a)] > Code[Head(b)] THEN FALSE
    ELSE StrLess(Tail(a), Tail(b))

StartsWith(s, p) ==
    Len(s) >= Len(p) /\ SubSeq(s, 1, Len(p)) = p

EndsWith(s, p) ==
    Len(s) >= Len(p) /\ SubSeq(s, Len(s) - Len(p) + 1, Len(s)) = p

\* Path.glob("Driver*") applied to one entry name
MatchDriver(name) == StartsWith(name, <<"D", "r", "i", "v", "e", "r">>)

\* Path.glob("*.xlsx") applied to one entry name
MatchXlsx(name) == EndsWith(name, <<".", "x", "l", "s", "x">>)

----------------------------------------------------------------------------
(* The input tree *)

Driver1 == <<"D", "r", "i", "v", "e", "r", "1">>
Driver2 == <<"D", "r", "i", "v", "e", "r", "2">>
aDriver == <<"a", "D", "r", "i", "v", "e", "r">>
sub     == <<"s", "u", "b">>
b_u     == <<"b", "_", "u", ".", "x", "l", "s", "x">>
a_plain == <<"a", ".", "x", "l", "s", "x">>
a_csv   == <<"a", "_", "c", ".", "c", "s", "v">>
b_quote == <<"b", "_", "\"", ",", "_", "v", ".", "x", "l", "s", "x">>

\* the entries a tree may be built from
Universe ==
    { [path |-> <<Driver1>>,               kind |-> "dir"],
      [path |-> <<Driver1>>,               kind |-> "file"],
      [path |-> <<Driver2>>,               kind |-> "dir"],
      [path |-> <<aDriver>>,               kind |-> "dir"],
      [path |-> <<Driver1, b_u>>,          kind |-> "file"],
      [path |-> <<Driver1, a_plain>>,      kind |-> "file"],
      [path |-> <<Driver1, a_plain>>,      kind |-> "dir"],
      [path |-> <<Driver1, a_csv>>,        kind |-> "file"],
      [path |-> <<Driver1, sub>>,          kind |-> "dir"],
      [path |-> <<Driver1, sub, b_u>>,     kind |-> "file"],
      [path |-> <<Driver2, b_u>>,          kind |-> "file"],
      [path |-> <<Driver2, b_quote>>,      kind |-> "file"],
      [path |-> <<aDriver, b_u>>,          kind |-> "file"] }

Parent(p) == SubSeq(p, 1, Len(p) - 1)

\* a tree: one kind per path, and every entry sits in a directory
IsTree(t) ==
    /\ \A e1, e2 \in t : e1.path = e2.path => e1 = e2
    /\ \A e \in t : Len(e.path) > 1 =>
           [path |-> Parent(e.path), kind |-> "dir"] \in t

Trees == { t \in SUBSET Universe : Cardinality(t) <= MaxEntries /\ IsTree(t) }

----------------------------------------------------------------------------
(* iter_excel_files *)

\* sorted() on a set of entries that share their parent: by last component
RECURSIVE SortedEntries(_)
SortedEntries(S) ==
    IF S = {} THEN <<>>
    ELSE LET m == CHOOSE e \in S :
                    \A o \in S \ {e} :
                        StrLess(e.path[Len(e.path)], o.path[Len(o.path)])
         IN <<m>> \o SortedEntries(S \ {m})

\* root.glob("Driver*"): the direct entries of the root that match
GlobDriver(t) ==
    { e \in t : Len(e.path) = 1 /\ MatchDriver(e.path[1]) }

\* driver_dir.glob("*.xlsx"): the direct entries of driver_dir that match
GlobXlsx(t, d) ==
    { e \in t : Len(e.path) = 2 /\ Parent(e.path) = d.path
                /\ MatchXlsx(e.path[2]) }

RECURSIVE WalkDrivers(_, _)
WalkDrivers(t, dirs) ==
    IF dirs = <<>> THEN <<>>
    ELSE IF Head(dirs).kind # "dir" THEN WalkDrivers(t, Tail(dirs))
    ELSE SortedEntries(GlobXlsx(t, Head(dirs))) \o WalkDrivers(t, Tail(dirs))

\* the sequence of entries the generator yields; a root that is not a
\* directory has nothing to glob
iter_excel_files(rk, t) ==
    IF rk # "dir" THEN <<>>
    ELSE WalkDrivers(t, SortedEntries(GlobDriver(t)))

----------------------------------------------------------------------------
(* parse_maneuver_from_filename *)

\* last index of c in s, 0 if none (str.rfind, shifted to 1-based)
RECURSIVE RFind(_, _, _)
RFind(s, c, i) ==
    IF i = 0 THEN 0
    ELSE IF s[i] = c THEN i
    ELSE RFind(s, c, i - 1)

\* PurePath.stem: the name up to its last dot, unless that dot is the first
\* or the last character
Stem(name) ==
    LET i == RFind(name, ".", Len(name))
    IN IF 1 < i /\ i < Len(name) THEN SubSeq(name, 1, i - 1) ELSE name

\* str.split("_"): cut at every underscore, empty segments kept
RECURSIVE Split(_, _)
Split(s, cur) ==
    IF s = <<>> THEN <<cur>>
    ELSE IF Head(s) = "_" THEN <<cur>> \o Split(Tail(s), <<>>)
    ELSE Split(Tail(s), Append(cur, Head(s)))

\* the label taken from the first segment instead of the second
parse_maneuver_first_part(name) ==
    LET parts == Split(Stem(name), <<>>)
    IN IF Len(parts) >= 2 THEN parts[1] ELSE <<>>

parse_maneuver_from_filename(name) ==
    LET parts == Split(Stem(name), <<>>)
    IN IF Len(parts) >= 2 THEN parts[2] ELSE <<>>

----------------------------------------------------------------------------
(* DataFrames: [cols, rows], every row aligned with cols *)

Range(s) == { s[i] : i \in 1..Len(s) }

\* position of column c in cols (c is in cols)
ColIdx(cols, c) == CHOOSE i \in 1..Len(cols) : cols[i] = c

\* a missing value
NaN == <<"NaN">>

columns_to_remove ==
    <<"Accidents", "Collisions", "Peds Hit", "Speeding Tics", "Red Lgt Tics",
      "Speed Exceed", "Stop Sign Ticks">>

\* list.insert(loc, v) with a 0-based loc
InsertAt(s, loc, v) ==
    SubSeq(s, 1, loc) \o <<v>> \o SubSeq(s, loc + 1, Len(s))

\* DataFrame.insert(loc, column, value) with a scalar value; the caller has
\* checked that the column is new
df_insert(df, loc, col, val) ==
    [cols |-> InsertAt(df.cols, loc, col),
     rows |-> [k \in 1..Len(df.rows) |-> InsertAt(df.rows[k], loc, val)]]

\* the positions of s whose element is not in the set drop, in order
RECURSIVE KeepIdx(_, _, _)
KeepIdx(s, drop, i) ==
    IF i > Len(s) THEN <<>>
    ELSE IF s[i] \in drop THEN KeepIdx(s, drop, i + 1)
    ELSE <<i>> \o KeepIdx(s, drop, i + 1)

\* DataFrame.drop(columns=..., errors="ignore")
df_drop(df, columns) ==
    LET keep == KeepIdx(df.cols, Range(columns), 1)
    IN [cols |-> [j \in 1..Len(keep) |-> df.cols[keep[j]]],
        rows |-> [k \in 1..Len(df.rows) |->
                     [j \in 1..Len(keep) |-> df.rows[k][keep[j]]]]]

\* the columns of all frames in order of first appearance
RECURSIVE UnionCols(_, _)
UnionCols(fr, acc) ==
    IF fr = <<>> THEN acc
    ELSE LET new == KeepIdx(Head(fr).cols, Range(acc), 1)
         IN UnionCols(Tail(fr),
                acc \o [j \in 1..Len(new) |-> Head(fr).cols[new[j]]])

\* the rows of one frame laid out on the columns ucols
Reindex(df, ucols) ==
    [k \in 1..Len(df.rows) |->
        [j \in 1..Len(ucols) |->
            IF ucols[j] \in Range(df.cols)
            THEN df.rows[k][ColIdx(df.cols, ucols[j])]
            ELSE NaN]]

RECURSIVE ConcatRows(_, _)
ConcatRows(fr, ucols) ==
    IF fr = <<>> THEN <<>>
    ELSE Reindex(Head(fr), ucols) \o ConcatRows(Tail(fr), ucols)

RECURSIVE Reverse(_)
Reverse(s) == IF s = <<>> THEN <<>> ELSE Append(Reverse(Tail(s)), Head(s))

\* the frames put together last to first
pd_concat_reversed(fr) ==
    LET ucols == UnionCols(fr, <<>>)
    IN [cols |-> ucols, rows |-> ConcatRows(Reverse(fr), ucols)]

\* join="inner": only the columns every frame has
pd_concat_inner(fr) ==
    LET all == UnionCols(fr, <<>>)
        keep == KeepIdx(all,
                    { c \in Range(all) :
                        \E i \in 1..Len(fr) : c \notin Range(fr[i].cols) }, 1)
        ucols == [j \in 1..Len(keep) |-> all[keep[j]]]
    IN [cols |-> ucols, rows |-> ConcatRows(fr, ucols)]

\* pd.concat(frames, ignore_index=True, sort=False)
pd_concat(fr) ==
    LET ucols == UnionCols(fr, <<>>)
    IN [cols |-> ucols, rows |-> ConcatRows(fr, ucols)]

----------------------------------------------------------------------------
(* DataFrame.to_csv(index=False, encoding="utf-8-sig") and reading it back *)

BOM == "BOM"
LF == "\n"
Quote == "\""
Comma == ","

\* csv.QUOTE_MINIMAL: a field is quoted when it holds a delimiter, a quote
\* or a line break; quotes inside are doubled
RECURSIVE DoubleQuotes(_)
DoubleQuotes(t) ==
    IF t = <<>> THEN <<>>
    ELSE IF Head(t) = Quote THEN <<Quote, Quote>> \o DoubleQuotes(Tail(t))
    ELSE <<Head(t)>> \o DoubleQuotes(Tail(t))

CsvField(t) ==
    IF Range(t) \cap {Comma, Quote, LF} # {}
    THEN <<Quote>> \o DoubleQuotes(t) \o <<Quote>>
    ELSE t

RECURSIVE CsvLine(_)
CsvLine(fields) ==
    IF fields = <<>> THEN <<LF>>
    ELSE IF Len(fields) = 1 THEN CsvField(fields[1]) \o <<LF>>
    ELSE CsvField(Head(fields)) \o <<Comma>> \o CsvLine(Tail(fields))

RECURSIVE CsvLines(_)
CsvLines(recs) ==
    IF recs = <<>> THEN <<>>
    ELSE CsvLine(Head(recs)) \o CsvLines(Tail(recs))

\* a cell as to_csv prints it: a missing value is the empty field
CellText(v) == IF v = NaN THEN <<>> ELSE v

to_csv(df) ==
    <<BOM>>
    \o CsvLine([j \in 1..Len(df.cols) |-> <<df.cols[j]>>])
    \o CsvLines([k \in 1..Len(df.rows) |->
                    [j \in 1..Len(df.cols) |-> CellText(df.rows[k][j])]])

\* first delimiter or line break at or after position i, Len(s) + 1 if none
FieldEnd(s, i) ==
    LET D == { j \in i..Len(s) : s[j] \in {Comma, LF} }
    IN IF D = {} THEN Len(s) + 1
       ELSE CHOOSE j \in D : \A h \in D : j <= h

\* the quote that closes the field opened by the quote at position i: the
\* first later quote that is not half of a doubled one; Len(s) + 1 if none
ClosingQuote(s, i) ==
    LET C == { j \in (i + 1)..Len(s) :
                 /\ s[j] = Quote
                 /\ Cardinality({ h \in (i + 1)..j : s[h] = Quote }) % 2 = 1
                 /\ (j = Len(s) \/ s[j + 1] # Quote) }
    IN IF C = {} THEN Len(s) + 1
       ELSE CHOOSE j \in C : \A h \in C : j <= h

\* the inside of a quoted field with doubled quotes read as one
RECURSIVE Undouble(_)
Undouble(t) ==
    IF t = <<>> THEN <<>>
    ELSE IF Head(t) = Quote /\ Len(t) >= 2 /\ t[2] = Quote
    THEN <<Quote>> \o Undouble(SubSeq(t, 3, Len(t)))
    ELSE <<Head(t)>> \o Undouble(Tail(t))

\* a CSV reader: s is the text, i the position where a field starts, rec
\* the fields of the record being read, recs the records read
RECURSIVE CsvParse(_, _, _, _)
CsvParse(s, i, rec, recs) ==
    IF i > Len(s) THEN
        IF rec = <<>> THEN recs ELSE Append(recs, Append(rec, <<>>))
    ELSE
        LET quoted == s[i] = Quote
            close == ClosingQuote(s, i)
            e == IF quoted THEN FieldEnd(s, close + 1) ELSE FieldEnd(s, i)
            field == IF quoted
                     THEN Undouble(SubSeq(s, i + 1, close - 1))
                              \o SubSeq(s, close + 1, e - 1)
                     ELSE SubSeq(s, i, e - 1)
            full == IF rec = <<>> /\ field = <<>> /\ ~quoted
                    THEN <<>> ELSE Append(rec, field)
        IN IF e > Len(s) THEN Append(recs, full)
           ELSE IF s[e] = Comma
           THEN CsvParse(s, e + 1, Append(rec, field), recs)
           ELSE CsvParse(s, e + 1, <<>>, Append(recs, full))

\* decoding with utf-8-sig drops the byte-order mark, then the reader runs
read_csv(data) ==
    LET text == IF data # <<>> /\ Head(data) = BOM THEN Tail(data) ELSE data
    IN CsvParse(text, 1, <<>>, <<>>)

----------------------------------------------------------------------------
(* What pd.read_excel may hand back *)

SheetSpeed ==
    [cols |-> <<"Speed", "Accidents", "Collisions", "Peds Hit",
                "Speeding Tics", "Red Lgt Tics", "Speed Exceed">>,
     rows |-> << << <<"7">>, <<"0">>, <<"0">>, <<"0">>, <<"0">>, <<"0">>,
                    <<"0">> >> >>]

SheetLane ==
    [cols |-> <<"Lane", "Speed", "Stop Sign Ticks">>,
     rows |-> << << <<"1">>, <<"8">>, <<"0">> >>,
                 << <<"2">>, <<"9">>, <<"1">> >> >>]

\* a sheet without header and without data rows
SheetEmpty == [cols |-> <<>>, rows |-> <<>>]

\* a sheet that already has a column called driver
SheetTagged ==
    [cols |-> <<"driver", "Speed">>,
     rows |-> << << <<"x">>, <<"5">> >> >>]

\* the shapes main() distinguishes after the call: an exception, None, a
\* dict of sheets, or one DataFrame.  A directory cannot be opened as a
\* workbook.
ReadResults(entry) ==
    IF entry.kind # "file"
    THEN { [kind |-> "raise", sheets |-> <<>>] }
    ELSE { [kind |-> "raise", sheets |-> <<>>],
           [kind |-> "none",  sheets |-> <<>>],
           [kind |-> "dict",  sheets |-> <<>>],
           [kind |-> "dict",  sheets |-> <<SheetLane, SheetSpeed>>],
           [kind |-> "frame", sheets |-> <<SheetSpeed>>],
           [kind |-> "frame", sheets |-> <<SheetLane>>],
           [kind |-> "frame", sheets |-> <<SheetEmpty>>],
           [kind |-> "frame", sheets |-> <<SheetTagged>>] }

\* whether the loop body goes on with a table after lines 103-110
HasTable(res) ==
    \/ res.kind = "frame"
    \/ res.kind = "dict" /\ res.sheets # <<>>

----------------------------------------------------------------------------
(* main *)

\* the denylist is not applied
tag_without_drop(df, driver, maneuver) ==
    df_insert(df_insert(df, 0, "driver", driver), 1, "maneuver", maneuver)

\* the two values end up in each other's column
tag_swapped(df, driver, maneuver) ==
    df_drop(df_insert(df_insert(df, 0, "driver", maneuver),
                      1, "maneuver", driver),
            columns_to_remove)

\* lines 112-117: the two leading columns go in, the denylist goes out
tag_and_project(df, driver, maneuver) ==
    df_drop(df_insert(df_insert(df, 0, "driver", driver),
                      1, "maneuver", maneuver),
            columns_to_remove)

NoFrame == [cols |-> <<>>, rows |-> <<>>]
OldFile == [exists |-> TRUE, data |-> <<"o", "l", "d", LF>>]
NoFile == [exists |-> FALSE, data |-> <<>>]

files == iter_excel_files(rootKind, fs)

Init ==
    /\ rootKind \in {"missing", "file", "dir"}
    /\ fs \in Trees
    /\ rootKind # "dir" => fs = {}
    /\ pandasOk \in BOOLEAN
    /\ pc = "start"
    /\ globbed = FALSE
    /\ idx = 0
    /\ reads = <<>>
    /\ frames = <<>>
    /\ combined = NoFrame
    /\ outDir \in BOOLEAN
    /\ outFile \in {NoFile, OldFile}
    /\ outFile.exists => outDir
    /\ exitStatus = -1
    /\ errMsg = ""
    /\ pname = <<>>
    /\ plabel = [set |-> FALSE, val |-> <<>>]

\* raise SystemExit(message): the message goes to stderr, the status is 1
Fatal(msg) ==
    /\ pc' = "fatal"
    /\ exitStatus' = 1
    /\ errMsg' = msg

\* an exception nobody catches: traceback, status 1
Crash ==
    /\ pc' = "crashed"
    /\ exitStatus' = 1
    /\ errMsg' = ""

\* only exists() is tested
CheckInput_exists_only ==
    /\ pc = "start"
    /\ IF rootKind = "missing"
       THEN Fatal("input_not_found")
       ELSE /\ pc' = "import"
            /\ UNCHANGED <<exitStatus, errMsg>>
    /\ UNCHANGED <<rootKind, fs, pandasOk, globbed, idx, reads, frames,
                   combined, outDir, outFile, pname, plabel>>

\* lines 62-66
CheckInput ==
    /\ pc = "start"
    /\ IF rootKind # "dir"
       THEN Fatal("input_not_found")
       ELSE /\ pc' = "import"
            /\ UNCHANGED <<exitStatus, errMsg>>
    /\ UNCHANGED <<rootKind, fs, pandasOk, globbed, idx, reads, frames,
                   combined, outDir, outFile, pname, plabel>>

\* lines 68-74
ImportPandas ==
    /\ pc = "import"
    /\ IF ~pandasOk
       THEN Fatal("missing_dependency")
       ELSE /\ pc' = "loop"
            /\ UNCHANGED <<exitStatus, errMsg>>
    /\ UNCHANGED <<rootKind, fs, pandasOk, globbed, idx, reads, frames,
                   combined, outDir, outFile, pname, plabel>>

\* the failed workbook is skipped and the loop goes on
OnReadError_skip == UNCHANGED <<pc, exitStatus, errMsg, frames>>

\* lines 95-100 have no try/except: an exception of pd.read_excel leaves
\* main()
OnReadError ==
    /\ Crash
    /\ UNCHANGED frames

\* lines 88-119: one pass of the for loop over the path the generator
\* yields next, with res what pd.read_excel does for it
LoopBody(res) ==
    /\ pc = "loop"
    /\ idx < Len(files)
    /\ LET entry == files[idx + 1]
           driver == entry.path[Len(entry.path) - 1]
           maneuver == parse_maneuver_from_filename(entry.path[Len(entry.path)])
           df == res.sheets[1]
       IN /\ res \in ReadResults(entry)
          /\ globbed' = TRUE
          /\ idx' = idx + 1
          /\ reads' = Append(reads, [path |-> entry.path, res |-> res])
          /\ IF res.kind = "raise" THEN
                 OnReadError
             ELSE IF ~HasTable(res) THEN
                 UNCHANGED <<pc, exitStatus, errMsg, frames>>
             ELSE IF "driver" \in Range(df.cols) THEN
                 /\ Crash
                 /\ UNCHANGED frames
             ELSE IF "maneuver" \in Range(df.cols) THEN
                 /\ Crash
                 /\ UNCHANGED frames
             ELSE
                 /\ frames' = Append(frames,
                                     tag_and_project(df, driver, maneuver))
                 /\ UNCHANGED <<pc, exitStatus, errMsg>>
    /\ UNCHANGED <<rootKind, fs, pandasOk, combined, outDir, outFile,
                   pname, plabel>>

\* the emptiness test of line 121 is left out
Finish_unchecked ==
    /\ pc = "loop"
    /\ idx = Len(files)
    /\ globbed' = TRUE
    /\ combined' = pd_concat(frames)
    /\ outDir' = TRUE
    /\ outFile' = [exists |-> TRUE, data |-> to_csv(pd_concat(frames))]
    /\ pc' = "done"
    /\ exitStatus' = 0
    /\ UNCHANGED errMsg
    /\ UNCHANGED <<rootKind, fs, pandasOk, idx, reads, frames, pname, plabel>>

\* lines 121-133: the generator is exhausted
Finish ==
    /\ pc = "loop"
    /\ idx = Len(files)
    /\ globbed' = TRUE
    /\ IF frames = <<>>
       THEN /\ Fatal("no_files")
            /\ UNCHANGED <<combined, outDir, outFile>>
       ELSE /\ combined' = pd_concat(frames)
            /\ outDir' = TRUE
            /\ outFile' = [exists |-> TRUE, data |-> to_csv(pd_concat(frames))]
            /\ pc' = "done"
            /\ exitStatus' = 0
            /\ UNCHANGED errMsg
    /\ UNCHANGED <<rootKind, fs, pandasOk, idx, reads, frames, pname, plabel>>

Next ==
    \/ CheckInput
    \/ ImportPandas
    \/ \E res \in UNION { ReadResults(e) : e \in Universe } : LoopBody(res)
    \/ Finish

Spec == Init /\ [][Next]_vars

----------------------------------------------------------------------------
(* parse_maneuver_from_filename on its own, over all short names *)

RECURSIVE Texts(_, _)
Texts(alphabet, n) ==
    IF n = 0 THEN { <<>> }
    ELSE LET shorter == Texts(alphabet, n - 1)
         IN shorter \cup
            { Append(t, c) : t \in { u \in shorter : Len(u) = n - 1 },
                             c \in alphabet }

STISIMData_UTurnings ==
    <<"S", "T", "I", "S", "I", "M", "D", "a", "t", "a", "_", "U", "-", "T",
      "u", "r", "n", "i", "n", "g", "s", ".", "x", "l", "s", "x">>

NoUnderscoreName ==
    <<"N", "o", "U", "n", "d", "e", "r", "s", "c", "o", "r", "e", "N", "a",
      "m", "e", ".", "x", "l", "s", "x">>

FileNames ==
    Texts({"a", "_", "."}, MaxNameLen)
        \cup {STISIMData_UTurnings, NoUnderscoreName, b_u, b_quote, a_plain}

InitLabel ==
    /\ rootKind = "missing"
    /\ fs = {}
    /\ pandasOk = FALSE
    /\ pc = "idle"
    /\ globbed = FALSE
    /\ idx = 0
    /\ reads = <<>>
    /\ frames = <<>>
    /\ combined = NoFrame
    /\ outDir = FALSE
    /\ outFile = NoFile
    /\ exitStatus = -1
    /\ errMsg = ""
    /\ pname \in FileNames
    /\ plabel = [set |-> FALSE, val |-> <<>>]

ParseName ==
    /\ pc = "idle"
    /\ ~plabel.set
    /\ plabel' = [set |-> TRUE, val |-> parse_maneuver_from_filename(pname)]
    /\ UNCHANGED <<mainVars, pname>>

NextLabel == ParseName

SpecLabel == InitLabel /\ [][NextLabel]_vars

----------------------------------------------------------------------------
(* Properties *)

Denylist == Range(columns_to_remove)

\* the table the loop body went on with for one logged read
UsedSheet(r) == r.res.sheets[1]

\* the data rows of all logged reads, in log order: [path, cols, row]
RECURSIVE SrcRows(_)
SrcRows(rs) ==
    IF rs = <<>> THEN <<>>
    ELSE (IF HasTable(Head(rs).res)
          THEN [k \in 1..Len(UsedSheet(Head(rs)).rows) |->
                   [path |-> Head(rs).path,
                    cols |-> UsedSheet(Head(rs)).cols,
                    row  |-> UsedSheet(Head(rs)).rows[k]]]
          ELSE <<>>)
         \o SrcRows(Tail(rs))

\* the output file as a CSV reader sees it
ReadBack == read_csv(outFile.data)

Uses(r, sheet) == HasTable(r.res) /\ UsedSheet(r) = sheet

\* C1: on a successful run every discovered file was read, in discovery
\* order, and the output rows are the rows of the first file in their
\* in-file order, then those of the second, and so on: as many rows as the
\* read sheets have together, each with the cell values of its source row,
\* both in the aggregated table and in the written CSV.
C1_RowsConcatenated ==
    pc = "done" =>
        LET src == SrcRows(reads)
        IN /\ Len(reads) = Len(files)
           /\ \A i \in 1..Len(reads) : reads[i].path = files[i].path
           /\ Len(combined.rows) = Len(src)
           /\ Len(ReadBack) = Len(src) + 1
           /\ \A k \in 1..Len(src) : \A j \in 1..Len(src[k].cols) :
                 src[k].cols[j] \notin Denylist =>
                    /\ src[k].cols[j] \in Range(combined.cols)
                    /\ combined.rows[k][ColIdx(combined.cols, src[k].cols[j])]
                           = src[k].row[j]
                    /\ ReadBack[k + 1][ColIdx(combined.cols, src[k].cols[j])]
                           = src[k].row[j]

\* two files with different sheets were aggregated
C1_Witness ==
    /\ pc = "done"
    /\ Len(reads) >= 2
    /\ Uses(reads[1], SheetLane)
    /\ Uses(reads[2], SheetSpeed)

\* C2: on a successful run no denylisted column name is in the output
\* header, neither in the aggregated table nor in the header line of the
\* CSV; and a file without denylisted columns is no error: a run that dies
\* on an exception does so on a failed read or on a sheet that already has
\* a driver or maneuver column.
C2_DenylistDropped ==
    /\ pc = "done" =>
          /\ Range(combined.cols) \cap Denylist = {}
          /\ Range(ReadBack[1]) \cap { <<c>> : c \in Denylist } = {}
    /\ pc = "crashed" =>
          \/ reads[Len(reads)].res.kind = "raise"
          \/ {"driver", "maneuver"}
                 \cap Range(UsedSheet(reads[Len(reads)]).cols) # {}

\* a denylisted column came from exactly one file, another file had none
C2_Witness ==
    /\ pc = "done"
    /\ Len(reads) = 2
    /\ Uses(reads[1], SheetEmpty)
    /\ Uses(reads[2], SheetLane)

\* what discovery is to yield: regular files named *.xlsx directly inside a
\* directory named Driver* directly inside the root
ExpectedFiles ==
    { e \in fs :
        /\ e.kind = "file"
        /\ Len(e.path) = 2
        /\ MatchXlsx(e.path[2])
        /\ MatchDriver(e.path[1])
        /\ [path |-> <<e.path[1]>>, kind |-> "dir"] \in fs }

\* (driver directory, file) pairs in sorted order
PathLess(p, q) ==
    \/ StrLess(p[1], q[1])
    \/ p[1] = q[1] /\ StrLess(p[2], q[2])

\* C3: discovery yields only files matching *.xlsx directly inside a
\* Driver* directory of the root, each once, in sorted order, and by the
\* time the generator is exhausted it has yielded all of them.
C3_DiscoveryExact ==
    globbed =>
        /\ \A i \in 1..idx : files[i] \in ExpectedFiles
        /\ \A i, j \in 1..idx : i < j => PathLess(files[i].path, files[j].path)
        /\ pc \in {"done", "fatal"} =>
              { files[i] : i \in 1..idx } = ExpectedFiles

\* second underscore-separated segment of s by position: what lies between
\* the first underscore and the next one (or the end)
SecondSegment(s) ==
    IF "_" \notin Range(s) THEN <<>>
    ELSE LET p == CHOOSE i \in 1..Len(s) :
                    s[i] = "_" /\ \A h \in 1..(i - 1) : s[h] # "_"
             q == IF \E i \in (p + 1)..Len(s) : s[i] = "_"
                  THEN CHOOSE i \in (p + 1)..Len(s) :
                          s[i] = "_" /\ \A h \in (p + 1)..(i - 1) : s[h] # "_"
                  ELSE Len(s) + 1
         IN SubSeq(s, p + 1, q - 1)

\* C4: for every file name the label is the second segment of the name
\* without its extension, the empty text when there is no underscore;
\* STISIMData_U-Turnings.xlsx gives U-Turnings, NoUnderscoreName.xlsx gives
\* the empty text.
C4_LabelIsSecondSegment ==
    plabel.set =>
        /\ plabel.val = SecondSegment(Stem(pname))
        /\ pname = STISIMData_UTurnings =>
              plabel.val = <<"U", "-", "T", "u", "r", "n", "i", "n", "g", "s">>
        /\ pname = NoUnderscoreName => plabel.val = <<>>

\* a name with three segments: the third is ignored
C4_Witness ==
    /\ plabel.set
    /\ pname = b_quote
    /\ plabel.val = <<Quote, Comma>>

\* C5: on a successful run the CSV read back has driver and maneuver as
\* its first two columns, and every row has in them the name of the parent
\* directory of its source file and the label of that file's name.
C5_TagsRoundTrip ==
    pc = "done" =>
        LET src == SrcRows(reads)
        IN /\ Len(combined.cols) >= 2
           /\ SubSeq(combined.cols, 1, 2) = <<"driver", "maneuver">>
           /\ SubSeq(ReadBack[1], 1, 2) = << <<"driver">>, <<"maneuver">> >>
           /\ Len(ReadBack) = Len(src) + 1
           /\ \A k \in 1..Len(src) :
                 /\ ReadBack[k + 1][1] = src[k].path[Len(src[k].path) - 1]
                 /\ ReadBack[k + 1][2] =
                       parse_maneuver_from_filename(
                           src[k].path[Len(src[k].path)])

\* rows were written for a file whose label holds a quote and a comma
C5_Witness ==
    /\ pc = "done"
    /\ \E i \in 1..Len(reads) :
          /\ reads[i].path = <<Driver2, b_quote>>
          /\ Uses(reads[i], SheetLane)

\* C6: on a successful run the output columns are driver, maneuver and
\* every non-denylisted column of any aggregated sheet, and a row whose
\* source sheet lacks a column has a missing value there, written as an
\* empty field.
C6_ColumnUnion ==
    pc = "done" =>
        LET src == SrcRows(reads)
        IN /\ Range(combined.cols) =
                 {"driver", "maneuver"}
                 \cup UNION { Range(UsedSheet(reads[i]).cols) \ Denylist :
                              i \in { h \in 1..Len(reads) :
                                        HasTable(reads[h].res) } }
           /\ ReadBack[1] = [j \in 1..Len(combined.cols) |-> <<combined.cols[j]>>]
           /\ Len(combined.rows) = Len(src)
           /\ \A k \in 1..Len(src) : \A j \in 1..Len(combined.cols) :
                 combined.cols[j] \notin
                     {"driver", "maneuver"} \cup Range(src[k].cols) =>
                    /\ combined.rows[k][j] = NaN
                    /\ ReadBack[k + 1][j] = <<>>

\* the column Lane comes from one file only and the other file has rows
C6_Witness ==
    /\ pc = "done"
    /\ Len(reads) = 2
    /\ Uses(reads[1], SheetSpeed)
    /\ Uses(reads[2], SheetLane)
    /\ "Lane" \in Range(combined.cols)

\* C7: a run that aggregated no row ends with a non-zero status and
\* without writing the output.
C7_ZeroRowsIsFatal ==
    (pc \in {"done", "fatal", "crashed"} /\ SrcRows(reads) = <<>>) =>
        (exitStatus # 0 /\ pc # "done")

\* C8: if the input root is missing or not a directory the run ends at
\* once with the fatal input error, before discovery and before any read,
\* and neither the output file nor its parent directory is touched.
C8_BadRootFatal ==
    /\ [](rootKind # "dir" /\ pc # "start" =>
             /\ pc = "fatal"
             /\ errMsg = "input_not_found"
             /\ exitStatus = 1
             /\ ~globbed
             /\ reads = <<>>)
    /\ [][rootKind # "dir" => outFile' = outFile /\ outDir' = outDir]_vars

\* the root is a regular file and no output directory exists
C8_Witness ==
    /\ rootKind = "file"
    /\ pc = "fatal"
    /\ ~outDir
    /\ ~outFile.exists

\* every discovered file was read and none of the reads left a table
NothingUsable ==
    /\ rootKind = "dir"
    /\ pandasOk
    /\ Len(reads) = Len(files)
    /\ \A i \in 1..Len(reads) :
          reads[i].res.kind # "raise" /\ ~HasTable(reads[i].res)

\* C9: when discovery yields nothing, or no discovered file yields a
\* table, the run ends with the fatal "no files found" error and a
\* non-zero status, and the output file is not written.
C9_NothingFoundFatal ==
    /\ [](NothingUsable /\ pc \notin {"start", "import", "loop"} =>
             /\ pc = "fatal"
             /\ errMsg = "no_files"
             /\ exitStatus # 0)
    /\ [][NothingUsable => outFile' = outFile]_vars

\* the only entry of the root is an empty Driver1 directory
C9_Witness ==
    /\ fs = { [path |-> <<Driver1>>, kind |-> "dir"] }
    /\ pc = "fatal"
    /\ errMsg = "no_files"

ReadFailed == \E i \in 1..Len(reads) : reads[i].res.kind = "raise"

\* C10: once a read fails the run is over with a non-zero status, the
\* failed read is the last one, and the output is never touched; the
\* output changes only when every discovered file has been read.
C10_NoPartialOutput ==
    /\ [](ReadFailed =>
             /\ pc = "crashed"
             /\ exitStatus # 0
             /\ \A i \in 1..(Len(reads) - 1) : reads[i].res.kind # "raise")
    /\ [][ReadFailed => outFile' = outFile /\ outDir' = outDir]_vars
    /\ [][(outFile' # outFile \/ outDir' # outDir) =>
             (Len(reads) = Len(files) /\ ~ReadFailed)]_vars

\* the second of three files failed after the first gave rows, and the
\* previous output file is still there
C10_Witness ==
    /\ pc = "crashed"
    /\ Len(files) = 3
    /\ Len(reads) = 2
    /\ Uses(reads[1], SheetLane)
    /\ reads[2].res.kind = "raise"
    /\ outFile = OldFile

====
